---- MODULE Spec2Model ----
(***************************************************************************)
(* Camera polling daemon (src/main.py): the supervisor (the main thread),  *)
(* one poll loop per camera (fetch_and_save, one thread each), the shared  *)
(* shutdown_event and the signal handler.                                  *)
(*                                                                         *)
(* Time is the monotonic clock in seconds.  Only two things take time: an  *)
(* HTTP fetch in flight and shutdown_event.wait().  Every other statement  *)
(* is instantaneous, so the clock does not advance while a loop is between *)
(* two of its blocking calls, and a wait returns as soon as it may.        *)
(*                                                                         *)
(* Specifications:                                                         *)
(*   Spec, LiveSpec  the daemon with the registry of the source, over      *)
(*                   time; LiveSpec adds fair scheduling of the threads.   *)
(*   StartSpec       the daemon's first second for every registry made of  *)
(*                   the source's names (duplicates included) and several  *)
(*                   sets of directories already on disk; the path of      *)
(*                   every saved file is recorded.                         *)
(*   ExtSpec         get_file_extension on a set of content-type headers.  *)
(*   TimelapseSpec   create_timelapse (src/create-timelapse.py) on a set   *)
(*                   of image folders.                                     *)
(***************************************************************************)
EXTENDS Integers, Sequences, FiniteSets, TLC

\* ---- program constants (src/main.py) ----
SAVE_DIR == "camera_images"

CAMERAS ==
  << [name |-> "Front Door", url |-> "https://example.com/FrontDoor.JPG", interval |-> 60],
     [name |-> "Pool",       url |-> "https://example.com/Pool.jpg",      interval |-> 30] >>

REQUEST_TIMEOUT == 15

\* ---- bounds of the model ----
Quantum    == 5    \* the clock advances in steps of Quantum seconds
MaxTime    == 40   \* the clock's horizon: it does not advance past this
MaxFetch   == 35   \* the longest a fetch is in flight
MaxSignals == 2    \* number of termination signals delivered
MaxParts   == 2    \* ExtSpec: a content-type header is made of at most MaxParts pieces
MaxFiles   == 2    \* TimelapseSpec: the image folder has at most MaxFiles entries

\* How long a fetch can take: quick, as long as the request timeout, and
\* longer than the shortest interval.
FetchDurations == {Quantum, REQUEST_TIMEOUT, MaxFetch}

Cam == 1..Len(CAMERAS)
NumCams == Len(CAMERAS)
Signals == {"SIGINT", "SIGTERM"}

\* What one pass through the try block (lines 93-116) can end in.
Outcomes ==
  {"ok",            \* 2xx, file written (lines 95-107)
   "timeout",       \* requests.exceptions.Timeout (line 109)
   "http_error",    \* raise_for_status on 4xx/5xx, or a connection error:
                    \* requests.exceptions.RequestException (line 111)
   "save_error",    \* OSError from open/write, filepath computed (line 113)
   "early_oserror", \* OSError raised before line 102 assigned filepath (line 113)
   "unexpected"}    \* any other Exception (line 115)

Max(a, b) == IF a >= b THEN a ELSE b

VARIABLES
  now,              \* time.monotonic()
  shutdown,         \* shutdown_event.is_set()
  handlers,         \* signals whose handler is signal_handler
  delivered,        \* number of signals delivered so far
  mainpc,           \* position of the main thread
  spawned,          \* threads started so far (index into CAMERAS)
  joined,           \* threads joined so far
  dirs,             \* directories that exist
  pc,               \* position of each camera thread
  next_fetch_time,  \* local of fetch_and_save (line 92)
  sleep_duration,   \* local of fetch_and_save (line 120)
  filepathBound,    \* whether the local `filepath` has been assigned (line 102)
  files,            \* number of image files written per camera directory
  startAt,          \* clock at the start of the camera's latest fetch (-1: none yet)
  waitFrom,         \* clock when the cycle's wait was entered (-1: not yet)
  lastOutcome,      \* outcome of the fetch that just ended (until the wait is entered)
  flagSeen,         \* where the loop was in its cycle when the flag was set:
                    \* "no" (not set, or set outside a cycle), "before" (set
                    \* before the cycle's fetch started), "fetch", "calc", "wait"
  registry,         \* the CAMERAS list the process was started with
  written,          \* StartSpec: which loop saved which response under which path
  content_type,     \* get_file_extension: the response's content-type header
  extension,        \* get_file_extension: its result ("none": not called yet)
  image_folder,     \* create_timelapse: the folder on disk, [exists, files]
  image_ext,        \* create_timelapse: the argument image_ext
  sorted_image_files, \* create_timelapse: local (line 43)
  out,              \* create_timelapse: the VideoWriter: "unopened", "open",
                    \* "failed" (could not be opened), "released"
  frames,           \* create_timelapse: the frames written to the video, in order
  tl_pc             \* create_timelapse: position, [at, i]: i is the index of
                    \* the write loop (line 82)

mainVars == <<mainpc, spawned, joined, dirs, handlers>>
camVars  == <<pc, next_fetch_time, sleep_duration, filepathBound, files,
              startAt, waitFrom, lastOutcome, flagSeen>>
cfgVars  == <<registry, written>>
extVars  == <<content_type, extension>>
tlVars   == <<image_folder, image_ext, sorted_image_files, out, frames, tl_pc>>
daemonVars == <<now, shutdown, delivered, mainVars, camVars, cfgVars>>
vars     == <<daemonVars, extVars, tlVars>>

Interval(c) == registry[c].interval
Name(c) == registry[c].name

\* The state at process start, for the registry reg and the directories
\* `have` already on disk.
InitWith(reg, have) ==
  /\ registry = reg
  /\ written = {}
  /\ now = 0
  /\ shutdown = FALSE
  /\ handlers = {}
  /\ delivered = 0
  /\ mainpc = "reg_sigint"
  /\ spawned = 0
  /\ joined = 0
  /\ dirs = have
  /\ pc = [c \in Cam |-> "idle"]
  /\ next_fetch_time = [c \in Cam |-> 0]
  /\ sleep_duration = [c \in Cam |-> 0]
  /\ filepathBound = [c \in Cam |-> FALSE]
  /\ files = [c \in Cam |-> 0]
  /\ startAt = [c \in Cam |-> -1]
  /\ waitFrom = [c \in Cam |-> -1]
  /\ lastOutcome = [c \in Cam |-> "none"]
  /\ flagSeen = [c \in Cam |-> "no"]

\* get_file_extension not called.
ExtIdle == content_type = <<"None">> /\ extension = "none"

\* create_timelapse (src/create-timelapse.py) not called.
TimelapseIdle ==
  /\ image_folder = [exists |-> FALSE, files |-> {}]
  /\ image_ext = <<>>
  /\ sorted_image_files = <<>>
  /\ out = "unopened"
  /\ frames = <<>>
  /\ tl_pc = [at |-> "idle", i |-> 0]

\* The registry of the source, in an empty working directory.
Init == InitWith(CAMERAS, {}) /\ ExtIdle /\ TimelapseIdle

ProcessAlive == mainpc \notin {"exit0", "exit1", "killed"}
Terminated(c) == pc[c] \in {"stopped", "crashed"}

\* ------------------------------------------------------------------------
\* Shutdown coordinator
\* ------------------------------------------------------------------------

\* Faulty variant: the handler toggles the flag instead of setting it
SignalHandlerToggle == ~shutdown

\* signal_handler (line 130): shutdown_event.set() - the flag after the handler
SignalHandler == TRUE

\* Where each loop is in its cycle when the flag goes up.
NoteFlag ==
  [c \in Cam |-> IF ~shutdown /\ pc[c] = "fetching" THEN "fetch"
                 ELSE IF ~shutdown /\ pc[c] = "calc" THEN "calc"
                 ELSE IF ~shutdown /\ pc[c] = "wait" THEN "wait"
                 ELSE flagSeen[c]]

\* Delivery of SIGINT or SIGTERM.  With the handler installed it runs
\* signal_handler; before that the default disposition ends the process.
Signal(sig) ==
  /\ ProcessAlive
  /\ delivered < MaxSignals
  /\ delivered' = delivered + 1
  /\ IF sig \in handlers
       THEN /\ shutdown' = SignalHandler
            /\ flagSeen' = NoteFlag
            /\ UNCHANGED <<now, mainVars, pc, next_fetch_time, sleep_duration,
                           filepathBound, files, startAt, waitFrom, lastOutcome>>
       ELSE /\ mainpc' = "killed"
            /\ UNCHANGED <<now, shutdown, spawned, joined, dirs, handlers, camVars>>

\* ------------------------------------------------------------------------
\* Supervisor (main thread, lines 133-173)
\* ------------------------------------------------------------------------

RegisterSigint ==
  /\ mainpc = "reg_sigint"
  /\ handlers' = handlers \cup {"SIGINT"}
  /\ mainpc' = "reg_sigterm"
  /\ UNCHANGED <<now, shutdown, delivered, spawned, joined, dirs, camVars>>

RegisterSigterm ==
  /\ mainpc = "reg_sigterm"
  /\ handlers' = handlers \cup {"SIGTERM"}
  /\ mainpc' = "setup"
  /\ UNCHANGED <<now, shutdown, delivered, spawned, joined, dirs, camVars>>

\* The directories setup_directories creates, in order (lines 56, 58-60).
CamDir(c) == <<SAVE_DIR, Name(c)>>
RootDir == <<SAVE_DIR>>
DirList == <<RootDir>> \o [c \in Cam |-> CamDir(c)]

\* Faulty variant: makedirs without exist_ok - an existing directory is an error
MakedirsRaisesIfExists(d, have) == IF d \in have THEN {TRUE} ELSE {FALSE, TRUE}

\* os.makedirs(d, exist_ok=True) with the directories `have` on disk: whether
\* it can raise OSError.  An existing directory is not an error; creating a
\* missing one can fail (permissions, invalid path).
MakedirsRaises(d, have) == IF d \in have THEN {FALSE} ELSE {FALSE, TRUE}

\* The directories on disk when makedirs number i is called.
DirsBefore(i) == dirs \cup {DirList[j] : j \in 1..(i - 1)}

\* setup_directories: makedirs number k raises OSError (k = Len(DirList)+1: none).
SetupDirectories(k) ==
  /\ mainpc = "setup"
  /\ \A i \in 1..(k - 1) : FALSE \in MakedirsRaises(DirList[i], DirsBefore(i))
  /\ k <= Len(DirList) => TRUE \in MakedirsRaises(DirList[k], DirsBefore(k))
  /\ dirs' = dirs \cup {DirList[i] : i \in 1..(k - 1)}
  /\ mainpc' = IF k <= Len(DirList) THEN "exit1" ELSE "spawn"
  /\ UNCHANGED <<now, shutdown, delivered, spawned, joined, handlers, camVars>>

\* Faulty variant: the loop body runs once before the flag is first tested
ThreadEntryBody == "begin"

\* A started thread enters fetch_and_save and comes to the loop test (line 91)
\* before anything else of the loop.
ThreadEntry == "test"

\* lines 143-153: create and start the thread of the next camera
SpawnThread ==
  /\ mainpc = "spawn"
  /\ spawned < NumCams
  /\ spawned' = spawned + 1
  /\ pc' = [pc EXCEPT ![spawned + 1] = ThreadEntry]
  /\ UNCHANGED <<now, shutdown, delivered, mainpc, joined, dirs, handlers,
                 next_fetch_time, sleep_duration, filepathBound, files,
                 startAt, waitFrom, lastOutcome, flagSeen>>

\* line 155: all threads started
SpawnDone ==
  /\ mainpc = "spawn"
  /\ spawned = NumCams
  /\ mainpc' = "mainloop"
  /\ UNCHANGED <<now, shutdown, delivered, spawned, joined, dirs, handlers, camVars>>

\* lines 162-163: while not shutdown_event.is_set(): time.sleep(1)
\* The loop changes nothing; the main thread leaves it once the flag is set.
MainLoop ==
  /\ mainpc = "mainloop"
  /\ shutdown
  /\ mainpc' = "join"
  /\ UNCHANGED <<now, shutdown, delivered, spawned, joined, dirs, handlers, camVars>>

\* Faulty variant: the main thread does not wait for the thread (no join)
JoinReturnsAtOnce(c) == TRUE

\* line 171: thread.join() returns once the thread has ended
JoinReturns(c) == Terminated(c)

\* lines 170-171
JoinThread ==
  /\ mainpc = "join"
  /\ joined < NumCams
  /\ JoinReturns(joined + 1)
  /\ joined' = joined + 1
  /\ UNCHANGED <<now, shutdown, delivered, mainpc, spawned, dirs, handlers, camVars>>

\* lines 172-173: sys.exit(0)
Exit0 ==
  /\ mainpc = "join"
  /\ joined = NumCams
  /\ mainpc' = "exit0"
  /\ UNCHANGED <<now, shutdown, delivered, spawned, joined, dirs, handlers, camVars>>

MainStep ==
  \/ RegisterSigint
  \/ RegisterSigterm
  \/ \E k \in 1..(Len(DirList) + 1) : SetupDirectories(k)
  \/ SpawnThread
  \/ SpawnDone
  \/ MainLoop
  \/ JoinThread
  \/ Exit0

\* ------------------------------------------------------------------------
\* File names (get_file_extension, lines 66-80; fetch_and_save, lines 99-102)
\* ------------------------------------------------------------------------

\* A string is the sequence of its characters.  response.headers.get(...) is
\* None when the response has no content-type header.
NoHeader == <<"None">>

UpperCase == <<"A", "B", "C", "D", "E", "F", "G", "H", "I", "J", "K", "L", "M",
               "N", "O", "P", "Q", "R", "S", "T", "U", "V", "W", "X", "Y", "Z">>
LowerCase == <<"a", "b", "c", "d", "e", "f", "g", "h", "i", "j", "k", "l", "m",
               "n", "o", "p", "q", "r", "s", "t", "u", "v", "w", "x", "y", "z">>

\* str.lower()
Lower(str) ==
  [i \in 1..Len(str) |->
     IF \E k \in 1..Len(UpperCase) : UpperCase[k] = str[i]
       THEN LowerCase[CHOOSE k \in 1..Len(UpperCase) : UpperCase[k] = str[i]]
       ELSE str[i]]

\* `sub in str` for strings
In(sub, str) ==
  \E i \in 1..(Len(str) - Len(sub) + 1) : SubSeq(str, i, i + Len(sub) - 1) = sub

ImageJpeg == <<"i", "m", "a", "g", "e", "/", "j", "p", "e", "g">>
ImagePng  == <<"i", "m", "a", "g", "e", "/", "p", "n", "g">>
ImageGif  == <<"i", "m", "a", "g", "e", "/", "g", "i", "f">>
ImageBmp  == <<"i", "m", "a", "g", "e", "/", "b", "m", "p">>

\* Faulty variant: the header is compared without .lower()
get_file_extension_cased(response) ==
  IF response # NoHeader /\ response # <<>>
    THEN IF In(ImageJpeg, response) THEN ".jpg"
         ELSE IF In(ImagePng, response) THEN ".png"
         ELSE IF In(ImageGif, response) THEN ".gif"
         ELSE IF In(ImageBmp, response) THEN ".bmp"
         ELSE ".jpg"
    ELSE ".jpg"

\* get_file_extension (lines 66-80); response stands for the response's
\* content-type header, None when it has none
get_file_extension(response) ==
  IF response # NoHeader /\ response # <<>>
    THEN IF In(ImageJpeg, Lower(response)) THEN ".jpg"
         ELSE IF In(ImagePng, Lower(response)) THEN ".png"
         ELSE IF In(ImageGif, Lower(response)) THEN ".gif"
         ELSE IF In(ImageBmp, Lower(response)) THEN ".bmp"
         ELSE ".jpg"
    ELSE ".jpg"

\* line 99: the wall clock in whole seconds
Timestamp == now

\* Faulty variant: every loop saves into one common directory, under one prefix
FilePathShared(c, timestamp, ext) ==
  <<SAVE_DIR, "all", <<"snapshot", timestamp, ext>>>>

\* lines 87, 101-102: filepath = SAVE_DIR/name/name_timestamp + extension, as
\* the path's components; the file name as its three parts.
FilePath(c, timestamp, ext) ==
  <<SAVE_DIR, Name(c), <<Name(c), timestamp, ext>>>>

\* ------------------------------------------------------------------------
\* Camera poll loop (fetch_and_save, lines 82-124)
\* ------------------------------------------------------------------------

\* Faulty variant: `while True:` - the loop never tests the flag
LoopConditionAlways == TRUE

\* line 91: while not shutdown_event.is_set()
LoopCondition == ~shutdown

\* The thread's locals end with the thread.
EndOfThread(c) ==
  /\ next_fetch_time' = [next_fetch_time EXCEPT ![c] = 0]
  /\ sleep_duration' = [sleep_duration EXCEPT ![c] = 0]
  /\ waitFrom' = [waitFrom EXCEPT ![c] = -1]
  /\ lastOutcome' = [lastOutcome EXCEPT ![c] = "none"]

\* lines 91 and 124: the loop test; when it fails the function returns
LoopTest(c) ==
  /\ pc[c] = "test"
  /\ IF LoopCondition
       THEN /\ pc' = [pc EXCEPT ![c] = "begin"]
            /\ UNCHANGED <<next_fetch_time, sleep_duration, waitFrom, lastOutcome>>
       ELSE /\ pc' = [pc EXCEPT ![c] = "stopped"]
            /\ EndOfThread(c)
  /\ UNCHANGED <<now, shutdown, delivered, mainVars, filepathBound, files, startAt,
                 flagSeen>>

\* Faulty variant: next_fetch_time is one variable shared by all threads
SetDeadlineShared(c) == [d \in Cam |-> now + Interval(c)]

\* line 92: next_fetch_time = time.monotonic() + interval (a local of the thread)
SetDeadline(c) == [next_fetch_time EXCEPT ![c] = now + Interval(c)]

\* lines 92-95: compute the deadline, then send the request
FetchBegin(c) ==
  /\ pc[c] = "begin"
  /\ next_fetch_time' = SetDeadline(c)
  /\ startAt' = [startAt EXCEPT ![c] = now]
  /\ waitFrom' = [waitFrom EXCEPT ![c] = -1]
  /\ flagSeen' = [flagSeen EXCEPT ![c] = IF shutdown THEN "before" ELSE "no"]
  /\ pc' = [pc EXCEPT ![c] = "fetching"]
  /\ UNCHANGED <<now, shutdown, delivered, mainVars, sleep_duration, filepathBound,
                 files, lastOutcome>>

\* The handler at lines 113-114 formats `filepath`; when the OSError came before
\* line 102 ever assigned it, the handler itself raises and the thread dies.
HandlerRaises(c, o) == o = "early_oserror" /\ ~filepathBound[c]

\* Faulty variant: a flat sleep of the whole interval after the fetch
SleepDurationFlat(c) == Interval(c)

\* Faulty variant: the remaining time is not clamped at zero
SleepDurationUnclamped(c) == next_fetch_time[c] - now

\* line 120: sleep_duration = max(0, next_fetch_time - time.monotonic())
SleepDuration(c) == Max(0, next_fetch_time[c] - now)

\* Faulty variant: a failed request is retried at once
AfterCycleRetry(c, o) ==
  IF HandlerRaises(c, o) THEN "crashed"
  ELSE IF o = "http_error" THEN "begin" ELSE "calc"

\* Faulty variant: the except clauses `continue`, skipping the wait
AfterCycleContinue(c, o) ==
  IF HandlerRaises(c, o) THEN "crashed"
  ELSE IF o = "ok" THEN "calc" ELSE "test"

\* Where the loop goes once the try statement is over.
AfterCycle(c, o) == IF HandlerRaises(c, o) THEN "crashed" ELSE "calc"

\* Faulty variant: an except clause gives up and requests shutdown
FlagAfterCycleGiveUp(o) == IF o = "ok" THEN shutdown ELSE TRUE

\* The flag after a cycle: no branch of the try statement touches shutdown_event.
FlagAfterCycle(o) == shutdown

\* Faulty variant: the image is not saved once shutdown has been requested
FilesAfterUnlessShutdown(c, o) ==
  [files EXCEPT ![c] = IF o = "ok" /\ ~shutdown THEN @ + 1 ELSE @]

\* lines 105-106: a successful fetch writes one file into the camera's directory
FilesAfter(c, o) == [files EXCEPT ![c] = IF o = "ok" THEN @ + 1 ELSE @]

\* A fetch ends after one of the durations; once shutdown has been requested
\* it may end at any moment.
FetchMayEnd(c) ==
  \/ now - startAt[c] \in FetchDurations
  \/ shutdown

\* lines 95-116: the request ends with outcome o; on success the file is
\* written; the except clauses log the failure.
FetchDone(c, o) ==
  /\ pc[c] = "fetching"
  /\ FetchMayEnd(c)
  /\ o = "timeout" => now - startAt[c] >= REQUEST_TIMEOUT
  /\ files' = FilesAfter(c, o)
  /\ filepathBound' = [filepathBound EXCEPT ![c] = @ \/ o \in {"ok", "save_error"}]
  /\ pc' = [pc EXCEPT ![c] = AfterCycle(c, o)]
  /\ shutdown' = FlagAfterCycle(o)
  /\ IF HandlerRaises(c, o)
       THEN EndOfThread(c)
       ELSE /\ lastOutcome' = [lastOutcome EXCEPT ![c] = o]
            /\ UNCHANGED <<next_fetch_time, sleep_duration, waitFrom>>
  /\ UNCHANGED <<now, delivered, mainVars, startAt, flagSeen>>

\* lines 120-122: compute sleep_duration and enter shutdown_event.wait(sleep_duration)
EnterWait(c) ==
  /\ pc[c] = "calc"
  /\ sleep_duration' = [sleep_duration EXCEPT ![c] = SleepDuration(c)]
  /\ waitFrom' = [waitFrom EXCEPT ![c] = now]
  /\ lastOutcome' = [lastOutcome EXCEPT ![c] = "none"]
  /\ pc' = [pc EXCEPT ![c] = "wait"]
  /\ UNCHANGED <<now, shutdown, delivered, mainVars, next_fetch_time, filepathBound,
                 files, startAt, flagSeen>>

\* Faulty variant: time.sleep(sleep_duration): only the timeout ends the wait
WaitWakesOnTimeout(c) == now >= waitFrom[c] + sleep_duration[c]

\* line 122: shutdown_event.wait(timeout) returns when the flag is set or the
\* timeout has elapsed
WaitWakes(c) == shutdown \/ now >= waitFrom[c] + sleep_duration[c]

WaitReturn(c) ==
  /\ pc[c] = "wait"
  /\ WaitWakes(c)
  /\ pc' = [pc EXCEPT ![c] = "test"]
  /\ UNCHANGED <<now, shutdown, delivered, mainVars, next_fetch_time, sleep_duration,
                 filepathBound, files, startAt, waitFrom, lastOutcome, flagSeen>>

\* The content-type headers the cameras answer with in StartSpec.
ServedHeaders == {NoHeader, <<"I", "m", "a", "g", "e", "/", "P", "N", "G">>}

\* lines 95-116 with the place of the saved file: the request ends with
\* outcome o; response stands for the response's content-type header.
FetchSave(c, o, response) ==
  /\ FetchDone(c, o)
  /\ written' =
       IF o = "ok"
         THEN written \cup
                {[cam |-> c, header |-> response,
                  path |-> FilePath(c, Timestamp, get_file_extension(response))]}
         ELSE written
  /\ UNCHANGED <<registry, extVars, tlVars>>

LoopStep(c) ==
  \/ LoopTest(c)
  \/ FetchBegin(c)
  \/ \E o \in Outcomes : FetchDone(c, o)
  \/ EnterWait(c)
  \/ WaitReturn(c)

\* ------------------------------------------------------------------------
\* The clock
\* ------------------------------------------------------------------------

\* A loop that is between two blocking calls, or whose wait may return.
Urgent(c) ==
  \/ pc[c] \in {"test", "begin", "calc"}
  \/ pc[c] = "wait" /\ WaitWakes(c)

\* The clock moves on by Quantum, or less when a wait times out earlier.
TickTo ==
  LET wakes == {waitFrom[c] + sleep_duration[c] : c \in {d \in Cam : pc[d] = "wait"}}
      upTo  == {now + Quantum} \cup wakes
  IN  CHOOSE t \in upTo : \A u \in upTo : t <= u

Tick ==
  /\ mainpc \in {"mainloop", "join"}
  /\ now + Quantum <= MaxTime
  /\ \E c \in Cam : pc[c] \in {"fetching", "wait"}
  /\ \A c \in Cam : ~Urgent(c)
  /\ \A c \in Cam : pc[c] = "fetching" => now - startAt[c] < MaxFetch
  /\ now' = TickTo
  /\ UNCHANGED <<shutdown, delivered, mainVars, camVars>>

\* Spec: the registry of the source; the images saved are counted (files).
Next ==
  \/ (\E sig \in Signals : Signal(sig)) /\ UNCHANGED <<cfgVars, extVars, tlVars>>
  \/ MainStep /\ UNCHANGED <<cfgVars, extVars, tlVars>>
  \/ (\E c \in Cam : LoopStep(c)) /\ UNCHANGED <<cfgVars, extVars, tlVars>>
  \/ Tick /\ UNCHANGED <<cfgVars, extVars, tlVars>>

Spec == Init /\ [][Next]_vars

\* The registries obtained by editing the names of CAMERAS (two entries may
\* get the same name), and the directories of a registry.
Names == {CAMERAS[c].name : c \in Cam}
Registries == {[c \in Cam |-> [CAMERAS[c] EXCEPT !.name = nm[c]]] : nm \in [Cam -> Names]}
DirsOf(reg) == {RootDir} \cup {<<SAVE_DIR, reg[c].name>> : c \in Cam}

\* StartSpec: the process's first second (the clock stands still, so every
\* file saved carries the same timestamp), started with any of the
\* registries, with none, the root or all of its directories on disk; the
\* place of every saved file is recorded.
StartInit ==
  \E reg \in Registries :
     \E have \in {{}, {RootDir}, DirsOf(reg)} :
        InitWith(reg, have) /\ ExtIdle /\ TimelapseIdle

StartNext ==
  \/ (\E sig \in Signals : Signal(sig)) /\ UNCHANGED <<cfgVars, extVars, tlVars>>
  \/ MainStep /\ UNCHANGED <<cfgVars, extVars, tlVars>>
  \/ \E c \in Cam :
        (LoopTest(c) \/ FetchBegin(c) \/ EnterWait(c) \/ WaitReturn(c))
           /\ UNCHANGED <<cfgVars, extVars, tlVars>>
  \/ \E c \in Cam, o \in Outcomes, h \in ServedHeaders : FetchSave(c, o, h)

StartSpec == StartInit /\ [][StartNext]_vars

\* ------------------------------------------------------------------------
\* ExtSpec: get_file_extension called on a response
\* ------------------------------------------------------------------------

\* Pieces of content-type headers: MIME types in several spellings, halves of
\* one, another type, a parameter separator.
Pieces ==
  { ImageJpeg,
    <<"I", "M", "A", "G", "E", "/", "P", "N", "G">>,
    <<"I", "m", "a", "g", "e", "/", "G", "i", "f">>,
    ImageBmp,
    <<"i", "m", "a", "g", "e", "/">>,
    <<"J", "P", "E", "G">>,
    <<"t", "e", "x", "t", "/", "h", "t", "m", "l">>,
    <<";", " ">> }

RECURSIVE Concat(_)
Concat(parts) == IF parts = <<>> THEN <<>> ELSE Head(parts) \o Concat(Tail(parts))

\* No header, and every header of at most MaxParts pieces (the empty one too).
Headers ==
  {NoHeader} \cup {Concat(parts) : parts \in UNION {[1..n -> Pieces] : n \in 0..MaxParts}}

ExtInit ==
  /\ InitWith(CAMERAS, {})
  /\ content_type \in Headers
  /\ extension = "none"
  /\ TimelapseIdle

\* line 100: extension = get_file_extension(response)
GetFileExtension ==
  /\ extension = "none"
  /\ extension' = get_file_extension(content_type)
  /\ UNCHANGED <<daemonVars, content_type, tlVars>>

ExtNext == GetFileExtension

ExtSpec == ExtInit /\ [][ExtNext]_vars

\* ------------------------------------------------------------------------
\* TimelapseSpec: create_timelapse (src/create-timelapse.py, lines 6-107)
\* ------------------------------------------------------------------------

\* A folder entry is named img<num><ext>; isfile tells a file from a
\* directory; read is what cv2.imread does with it: a "frame", "None", or it
\* "raises".
FileNums == {IF k = 1 THEN 2 ELSE 8 + k : k \in 1..MaxFiles}
FileExts == {<<".", "J", "P", "G">>, <<".", "p", "n", "g">>}
ImageExts == {<<".", "j", "p", "g">>, <<".", "P", "N", "G">>}
Reads == {"frame", "None", "raises"}

Attrs == [ext : FileExts, isfile : BOOLEAN, read : Reads]
Entry(n, a) == [num |-> n, ext |-> a.ext, isfile |-> a.isfile, read |-> a.read]

\* No folder at all, and every folder with entries numbered from FileNums.
Folders ==
  {[exists |-> FALSE, files |-> {}]} \cup
  UNION {{[exists |-> TRUE, files |-> {Entry(n, a[n]) : n \in D}] : a \in [D -> Attrs]}
           : D \in SUBSET FileNums}

DigitChars == <<"0", "1", "2", "3", "4", "5", "6", "7", "8", "9">>
Digits(n) == IF n < 10 THEN <<n>> ELSE <<n \div 10, n % 10>>
FileName(f) ==
  <<"i", "m", "g">> \o [k \in 1..Len(Digits(f.num)) |-> DigitChars[Digits(f.num)[k] + 1]]
     \o f.ext

\* str.endswith
EndsWith(str, suffix) ==
  /\ Len(suffix) <= Len(str)
  /\ SubSeq(str, Len(str) - Len(suffix) + 1, Len(str)) = suffix

\* lines 29-32: the entries that are files and whose lower-cased name ends
\* with the lower-cased image_ext
ImageFiles ==
  {f \in image_folder.files :
     f.isfile /\ EndsWith(Lower(FileName(f)), Lower(image_ext))}

\* The order of the names img<num><ext> as strings: digit by digit, a name
\* that goes on with its extension before one that goes on with a digit.
RECURSIVE LexLess(_, _)
LexLess(a, b) ==
  IF a = <<>> THEN b # <<>>
  ELSE IF b = <<>> THEN FALSE
  ELSE IF Head(a) # Head(b) THEN Head(a) < Head(b)
  ELSE LexLess(Tail(a), Tail(b))

\* Faulty variant: sorted() - the names in string order, img10 before img2
RECURSIVE sorted(_)
sorted(files_) ==
  IF files_ = {} THEN <<>>
  ELSE LET first == CHOOSE f \in files_ :
                      \A g \in files_ \ {f} : LexLess(Digits(f.num), Digits(g.num))
       IN  <<first>> \o sorted(files_ \ {first})

\* line 43: natsorted() - the names in natural order, by their number
RECURSIVE natsorted(_)
natsorted(files_) ==
  IF files_ = {} THEN <<>>
  ELSE LET first == CHOOSE f \in files_ : \A g \in files_ : f.num <= g.num
       IN  <<first>> \o natsorted(files_ \ {first})

TimelapseInit ==
  /\ InitWith(CAMERAS, {})
  /\ ExtIdle
  /\ image_folder \in Folders
  /\ image_ext \in ImageExts
  /\ sorted_image_files = <<>>
  /\ out = "unopened"
  /\ frames = <<>>
  /\ tl_pc = [at |-> "start", i |-> 0]

\* lines 24-43: validate the folder, list the image files, return when
\* there are none, sort them
ListImages ==
  /\ tl_pc.at = "start"
  /\ IF ~image_folder.exists \/ ImageFiles = {}
       THEN /\ tl_pc' = [at |-> "returned", i |-> 0]
            /\ UNCHANGED sorted_image_files
       ELSE /\ sorted_image_files' = natsorted(ImageFiles)
            /\ tl_pc' = [at |-> "read_first", i |-> 0]
  /\ UNCHANGED <<daemonVars, extVars, image_folder, image_ext, out, frames>>

\* lines 47-59: read the first image for the video's dimensions; return when
\* imread gives None or raises
ReadFirst ==
  /\ tl_pc.at = "read_first"
  /\ tl_pc' = [at |-> IF sorted_image_files[1].read = "frame"
                        THEN "open_writer" ELSE "returned",
               i |-> 0]
  /\ UNCHANGED <<daemonVars, extVars, image_folder, image_ext, sorted_image_files,
                 out, frames>>

\* lines 67-77: open the VideoWriter; return when it is not opened or raises
OpenWriter(opened) ==
  /\ tl_pc.at = "open_writer"
  /\ out' = IF opened THEN "open" ELSE "failed"
  /\ tl_pc' = IF opened THEN [at |-> "write", i |-> 1]
                         ELSE [at |-> "returned", i |-> 0]
  /\ UNCHANGED <<daemonVars, extVars, image_folder, image_ext, sorted_image_files,
                 frames>>

\* lines 82-102: one iteration of the write loop; an unreadable image, or one
\* whose processing raises, is skipped
WriteFrame(raises) ==
  /\ tl_pc.at = "write"
  /\ tl_pc.i <= Len(sorted_image_files)
  /\ frames' = IF sorted_image_files[tl_pc.i].read = "frame" /\ ~raises
                 THEN Append(frames, sorted_image_files[tl_pc.i].num)
                 ELSE frames
  /\ tl_pc' = [tl_pc EXCEPT !.i = @ + 1]
  /\ UNCHANGED <<daemonVars, extVars, image_folder, image_ext, sorted_image_files,
                 out>>

\* lines 105-107: out.release()
Release ==
  /\ tl_pc.at = "write"
  /\ tl_pc.i > Len(sorted_image_files)
  /\ out' = "released"
  /\ tl_pc' = [at |-> "done", i |-> 0]
  /\ UNCHANGED <<daemonVars, extVars, image_folder, image_ext, sorted_image_files,
                 frames>>

TimelapseNext ==
  \/ ListImages
  \/ ReadFirst
  \/ \E opened \in BOOLEAN : OpenWriter(opened)
  \/ \E raises \in BOOLEAN : WriteFrame(raises)
  \/ Release

TimelapseSpec == TimelapseInit /\ [][TimelapseNext]_vars

\* Every thread that can take a step eventually does; in particular a fetch
\* that may end eventually returns.
LiveSpec ==
  /\ Spec
  /\ WF_vars(MainStep /\ UNCHANGED <<cfgVars, extVars, tlVars>>)
  /\ \A c \in Cam : WF_vars(LoopStep(c) /\ UNCHANGED <<cfgVars, extVars, tlVars>>)

\* ------------------------------------------------------------------------
\* Properties
\* ------------------------------------------------------------------------

Running(c) == pc[c] \in {"test", "begin", "fetching", "calc", "wait"}
Stopping(c) == pc[c] = "stopped"
FetchStarts(c) == pc[c] # "fetching" /\ pc'[c] = "fetching"

\* C1: a loop whose wait saw the shutdown flag (set during the wait, or already
\* set when the wait began) leaves the wait only for the loop test, leaves the
\* loop test only for Stopping, stays there, and starts no fetch on the way.
C1_NoFetchAfterFlaggedWait ==
  [][\A c \in Cam :
       /\ (pc[c] = "wait" /\ shutdown) =>
             /\ flagSeen[c] # "no"
             /\ pc'[c] \in {"wait", "test"}
       /\ (pc[c] = "test" /\ flagSeen[c] # "no") => pc'[c] \in {"test", "stopped"}
       /\ Stopping(c) => Stopping(c)'
       /\ (flagSeen[c] # "no" /\ pc[c] \in {"wait", "test", "stopped"}) =>
             /\ ~FetchStarts(c)
             /\ startAt'[c] = startAt[c]
             /\ files'[c] = files[c]]_vars

\* C1 witness: a loop stopped after the flag was set during its wait, with its
\* last fetch started before the flag was set.
C1_Witness ==
  \E c \in Cam : Stopping(c) /\ flagSeen[c] = "wait" /\ startAt[c] >= 0

\* C2: whenever the process has exited with status 0, every camera loop was
\* started and none is still running, fetching or waiting.
C2_ExitZeroAfterLoops ==
  mainpc = "exit0" => \A c \in Cam : pc[c] # "idle" /\ ~Running(c)

\* C2 witness: exit status 0 with every loop in Stopping and a file saved.
C2_Witness ==
  /\ mainpc = "exit0"
  /\ \A c \in Cam : Stopping(c)
  /\ \E c \in Cam : files[c] > 0

\* The supervisor is past directory provisioning and has not been killed.
Provisioned == mainpc \in {"spawn", "mainloop", "join", "exit0"}

\* C3: once shutdown has been requested (and provisioning succeeded), under
\* fair scheduling with every fetch returning, every poll loop eventually
\* reaches Stopping and the process eventually exits with status 0.
C3_ShutdownTerminates ==
  (shutdown /\ Provisioned) ~> (mainpc = "exit0" /\ \A c \in Cam : Stopping(c))

\* C4: a loop that is mid-fetch leaves that state only by the fetch completing
\* (with an outcome; a successful one includes the file write), whether or
\* not shutdown has been requested; signal delivery does not move it; and a
\* loop reaches Stopping only from its loop test.
C4_FetchRunsToCompletion ==
  [][\A c \in Cam :
       /\ pc[c] = "fetching" =>
             /\ pc'[c] \in {"fetching", "calc", "crashed"}
             /\ pc'[c] # "fetching" => \E o \in Outcomes : FetchDone(c, o)
             /\ pc'[c] = "calc" =>
                   /\ lastOutcome'[c] \in Outcomes
                   /\ files'[c] = files[c] + (IF lastOutcome'[c] = "ok" THEN 1 ELSE 0)
             /\ delivered' # delivered => pc'[c] = "fetching" /\ startAt'[c] = startAt[c]
       /\ (~Stopping(c) /\ Stopping(c)') => pc[c] = "test"]_vars

\* C4 witness: the flag was set while the fetch was in flight, and the fetch
\* has completed successfully with its file written.
C4_Witness ==
  \E c \in Cam :
     /\ pc[c] = "calc" /\ shutdown /\ flagSeen[c] = "fetch"
     /\ lastOutcome[c] = "ok" /\ files[c] > 0

\* C5: while a loop is in its wait and shutdown has been requested, the wait
\* can return at once, however far the deadline is, and the clock does not
\* advance before the loop has left the wait and, from the loop test, stopped.
C5_WaitEndsOnShutdown ==
  [][\A c \in Cam :
       /\ (pc[c] = "wait" /\ shutdown) =>
             /\ ENABLED WaitReturn(c)
             /\ now' = now
             /\ pc'[c] \in {"wait", "test"}
       /\ (pc[c] = "test" /\ shutdown) =>
             /\ now' = now
             /\ pc'[c] \in {"test", "stopped"}]_vars

\* C5 witness: a loop has stopped, the flag having been set during its wait,
\* well before the deadline of that wait (its latest start plus the interval).
C5_Witness ==
  \E c \in Cam :
     /\ Stopping(c) /\ flagSeen[c] = "wait"
     /\ now + Quantum < startAt[c] + Interval(c)

\* C6: the flag is initially false; once set it is never cleared; and a
\* signal delivered when it is already set leaves the flag, the clock and every
\* loop as they are (and, with both handlers installed, the supervisor too).
C6_FlagMonotone ==
  /\ ~shutdown
  /\ [][/\ shutdown => shutdown'
        /\ (shutdown /\ delivered' # delivered) =>
              /\ UNCHANGED <<now, shutdown, camVars>>
              /\ handlers = Signals => UNCHANGED mainVars]_vars

\* C6 witness: a second signal has been delivered and the flag is set.
C6_Witness == shutdown /\ delivered >= 2 /\ \E c \in Cam : Running(c)

FetchEnds(c) == pc[c] = "fetching" /\ pc'[c] # "fetching"

\* C7: the flag changes only in a step that delivers a signal; a step in
\* which a fetch ends, whatever its outcome, leaves the flag as it was and
\* moves no loop to Stopping.
C7_OnlySignalsSetFlag ==
  [][/\ shutdown' # shutdown =>
           /\ delivered' = delivered + 1
           /\ \E sig \in Signals : Signal(sig)
     /\ \A c \in Cam :
           FetchEnds(c) =>
             /\ shutdown' = shutdown
             /\ \A d \in Cam : Stopping(d)' => Stopping(d)]_vars

\* C7 witness: one fetch has timed out and another has failed with an HTTP
\* error, no signal has been delivered, the flag is down and both loops run.
C7_Witness ==
  /\ ~shutdown /\ delivered = 0
  /\ \E c, d \in Cam : lastOutcome[c] = "timeout" /\ lastOutcome[d] = "http_error"
  /\ \A c \in Cam : Running(c)

\* What belongs to one loop.
Loop(c) == <<pc[c], next_fetch_time[c], sleep_duration[c], filepathBound[c],
             files[c], startAt[c], waitFrom[c], lastOutcome[c]>>

\* C8: a step of one loop (a fetch starting, ending with any outcome, a wait
\* entered or left, the loop test) leaves every other loop as it is, and each
\* fetch start after a loop's first is at the later of that loop's own previous
\* start plus its interval and the end of its own previous fetch.
C8_LoopsIndependent ==
  [][\A a \in Cam :
       /\ pc'[a] # pc[a] => \A b \in Cam \ {a} : Loop(b)' = Loop(b)
       /\ (FetchStarts(a) /\ startAt[a] >= 0) =>
             now = Max(startAt[a] + Interval(a), waitFrom[a])]_vars

\* C8 witness: one loop's fetch failed (its cycle is over and left no file)
\* and another loop has started its second fetch exactly one interval after
\* its first.
C8_Witness ==
  \E a, b \in Cam :
     /\ a # b
     /\ pc[a] = "wait" /\ files[a] = 0 /\ ~filepathBound[a]
     /\ pc[b] = "fetching" /\ startAt[b] = Interval(b) /\ files[b] > 0

C10_DeadlineCadence ==
  [][\A c \in Cam :
       /\ FetchStarts(c) =>
             /\ startAt'[c] = now
             /\ next_fetch_time'[c] = now + Interval(c)
       /\ (pc[c] = "calc" /\ pc'[c] = "wait") =>
             /\ sleep_duration'[c] = Max(0, next_fetch_time[c] - now)
             /\ (Interval(c) = 30 /\ now - startAt[c] = 5) => sleep_duration'[c] = 25
       /\ (FetchStarts(c) /\ startAt[c] >= 0
              /\ waitFrom[c] - startAt[c] <= Interval(c)) =>
             now - startAt[c] = Interval(c)]_vars

\* C10 witness: interval 30, the fetch took 5, the loop waits for 25.
C10_Witness ==
  \E c \in Cam :
     /\ pc[c] = "wait" /\ Interval(c) = 30
     /\ waitFrom[c] - startAt[c] = 5
     /\ sleep_duration[c] = 25

\* C11: the computed wait is never negative; it is max(0, deadline - clock), so
\* 0 when the fetch outlasted the interval; a wait of 0 returns without the
\* clock advancing; the loop test then passes unless shutdown was requested;
\* and the fetch that follows an overrun starts at the instant the overrunning
\* fetch ended, with the deadline that instant plus the interval.
C11_OverrunStartsAtOnce ==
  /\ \A c \in Cam : sleep_duration[c] >= 0
  /\ [][\A c \in Cam :
          /\ sleep_duration'[c] >= 0
          /\ (pc[c] = "calc" /\ pc'[c] = "wait") =>
                /\ sleep_duration'[c] = Max(0, next_fetch_time[c] - now)
                /\ now - startAt[c] > Interval(c) => sleep_duration'[c] = 0
          /\ (pc[c] = "wait" /\ sleep_duration[c] = 0) =>
                /\ ENABLED WaitReturn(c)
                /\ now' = now
          /\ (pc[c] = "test" /\ ~shutdown /\ pc'[c] # pc[c]) => pc'[c] = "begin"
          /\ (FetchStarts(c) /\ startAt[c] >= 0
                 /\ waitFrom[c] - startAt[c] > Interval(c)) =>
                /\ sleep_duration[c] = 0
                /\ now = waitFrom[c]
                /\ next_fetch_time'[c] = now + Interval(c)]_vars

\* C11 witness: a fetch that outlasted its interval has ended, and the next
\* fetch is in flight, started at that instant, with a fresh deadline.
C11_Witness ==
  \E c \in Cam :
     /\ pc[c] = "fetching" /\ startAt[c] > Interval(c)
     /\ startAt[c] = MaxFetch
     /\ sleep_duration[c] = 0
     /\ next_fetch_time[c] = startAt[c] + Interval(c)

\* C12: a loop starts a fetch only from the top of an iteration, never while
\* one is in flight; a fetch after the loop's first starts only when the
\* previous fetch has ended, its wait has been entered and that wait has run
\* out; and a fetch that has ended is followed by the wait, not by a fetch.
C12_FetchesSequential ==
  [][\A c \in Cam :
       /\ FetchStarts(c) =>
             /\ pc[c] = "begin"
             /\ startAt[c] >= 0 =>
                   /\ waitFrom[c] >= startAt[c]
                   /\ now >= waitFrom[c] + sleep_duration[c]
       /\ pc[c] = "fetching" =>
             /\ ~ENABLED FetchBegin(c)
             /\ startAt'[c] = startAt[c]
             /\ pc'[c] \in {"fetching", "calc", "crashed"}
       /\ pc[c] = "calc" => pc'[c] \in {"calc", "wait"}
       /\ pc[c] = "wait" => pc'[c] \in {"wait", "test"}]_vars

\* C12 witness: a loop's second fetch is in flight; its first one failed, and
\* the wait that followed it ran its full length.
C12_Witness ==
  \E c \in Cam :
     /\ pc[c] = "fetching" /\ startAt[c] > 0
     /\ files[c] = 0
     /\ now > startAt[c]

\* C15: a fetch that ends in a failure of any kind (timeout, connection or
\* HTTP error, write error, an OSError raised before the output path was
\* computed, any other exception) leaves the loop Running, on its way to the
\* wait: no cycle's failure ends the loop's thread.
C15_CycleFailuresCaught ==
  [][\A c \in Cam :
       FetchEnds(c) => pc'[c] = "calc" /\ Running(c)']_vars

\* C19: a loop test that finds the flag set ends the loop; a fetch started
\* with the flag set is started by a loop that had not seen the flag in a
\* cycle before (the flag went up between its loop test and its request); and
\* a loop that has started a fetch with the flag set, or had the flag set
\* during a cycle, starts no further fetch.
C19_AtMostOneFetchAfterFlag ==
  [][\A c \in Cam :
       /\ (pc[c] = "test" /\ shutdown /\ pc'[c] # pc[c]) => Stopping(c)'
       /\ (FetchStarts(c) /\ shutdown) =>
             /\ flagSeen[c] = "no"
             /\ flagSeen'[c] = "before"
       /\ flagSeen[c] # "no" =>
             /\ ~FetchStarts(c)
             /\ startAt'[c] = startAt[c]
             /\ flagSeen'[c] = flagSeen[c]]_vars

\* C19 witness: a fetch started after the flag was set has ended and its loop
\* has stopped.
C19_Witness ==
  \E c \in Cam : Stopping(c) /\ flagSeen[c] = "before" /\ startAt[c] >= 0

\* The loop of camera c has not yet passed its first loop test.
BeforeFirstIteration(c) == pc[c] \in {"idle", "test"} /\ startAt[c] = -1

\* C20: both handlers are installed before provisioning and before any thread
\* is started; a loop that has not passed its first loop test when the flag
\* is set never starts a fetch and writes no file; shutdown does not stop the
\* supervisor from starting every thread; and from such a state (provisioning
\* done) the process exits with status 0, every thread started and joined,
\* that loop in Stopping with no fetch and no file.
C20_SignalBeforeFirstIteration ==
  /\ [][/\ mainpc' \in {"setup", "spawn"} => handlers' = Signals
        /\ spawned' # spawned => handlers = Signals
        /\ (mainpc = "spawn" /\ mainpc' # mainpc) =>
              mainpc' = "mainloop" /\ spawned = NumCams
        /\ \A c \in Cam :
              (shutdown /\ BeforeFirstIteration(c)) =>
                 /\ pc'[c] \in {"idle", "test", "stopped"}
                 /\ startAt'[c] = -1
                 /\ files'[c] = 0]_vars
  /\ \A c \in Cam :
        (shutdown /\ Provisioned /\ BeforeFirstIteration(c)) ~>
           (/\ mainpc = "exit0" /\ spawned = NumCams /\ joined = NumCams
            /\ Stopping(c) /\ startAt[c] = -1 /\ files[c] = 0)

\* C20 witness: the flag was set before any loop's first iteration; the process
\* has exited with status 0, every thread started and joined, no fetch made.
C20_Witness ==
  /\ mainpc = "exit0" /\ spawned = NumCams /\ joined = NumCams
  /\ \A c \in Cam : Stopping(c) /\ startAt[c] = -1 /\ files[c] = 0

\* Two entries of the registry have the same name.
HasDuplicateNames == \E c, d \in Cam : c # d /\ Name(c) = Name(d)

\* C13: for a registry in which two cameras have the same name, no thread is
\* started, no loop leaves its initial state, no fetch starts and no file is
\* saved.
C13_DuplicateNamesRejected ==
  HasDuplicateNames =>
     /\ spawned = 0
     /\ \A c \in Cam : pc[c] = "idle" /\ startAt[c] = -1
     /\ written = {}

\* C14: setup_directories ends in exit status 1 exactly when a directory is
\* still missing after it (one could not be created), and goes on to start
\* the threads otherwise, in particular when every directory was there
\* already; at exit 1 no thread has been started, no loop has left its
\* initial state, no fetch was made and no file saved, and nothing happens
\* afterwards; a thread is started only when every directory exists.
C14_ProvisioningFailureExits ==
  [][/\ (mainpc = "setup" /\ mainpc' # mainpc) =>
           /\ mainpc' \in {"spawn", "exit1"}
           /\ mainpc' = "exit1" <=> \E i \in 1..Len(DirList) : DirList[i] \notin dirs'
           /\ (\A i \in 1..Len(DirList) : DirList[i] \in dirs) =>
                  mainpc' = "spawn" /\ dirs' = dirs
     /\ mainpc' = "exit1" =>
           /\ mainpc \in {"setup", "exit1"}
           /\ spawned' = 0
           /\ \A c \in Cam : pc'[c] = "idle" /\ startAt'[c] = -1 /\ files'[c] = 0
           /\ written' = {}
     /\ mainpc = "exit1" => UNCHANGED vars
     /\ spawned' # spawned => \A i \in 1..Len(DirList) : DirList[i] \in dirs]_vars

\* C14 witness: the root directory is there, a camera's directory could not
\* be created, and the process has exited with status 1 after a signal.
C14_Witness ==
  /\ mainpc = "exit1" /\ RootDir \in dirs
  /\ \E c \in Cam : CamDir(c) \notin dirs
  /\ shutdown

NamesDistinct == ~HasDuplicateNames

\* C16: every file a loop has saved lies in that camera's own directory
\* SAVE_DIR/name, which exists, under a file name that starts with the
\* camera's name; and when the names of the registry are distinct, files saved
\* by different loops have different directories and different paths.
C16_PathsPartitioned ==
  /\ \A w \in written :
        /\ Len(w.path) = 3
        /\ SubSeq(w.path, 1, 2) = CamDir(w.cam)
        /\ CamDir(w.cam) \in dirs
        /\ w.path[3][1] = Name(w.cam)
  /\ NamesDistinct =>
        \A w1, w2 \in written :
           w1.cam # w2.cam =>
              /\ w1.path # w2.path
              /\ SubSeq(w1.path, 1, 2) # SubSeq(w2.path, 1, 2)

\* C16 witness: with distinct names, two loops have saved a file in the same
\* second with the same extension.
C16_Witness ==
  /\ NamesDistinct
  /\ \E w1, w2 \in written :
        /\ w1.cam # w2.cam
        /\ w1.path[3][2] = w2.path[3][2]
        /\ w1.path[3][3] = w2.path[3][3]

\* The header mentions the MIME type, whatever the case of its letters.
Mentions(mime) ==
  /\ content_type # NoHeader
  /\ \E i \in 1..(Len(content_type) - Len(mime) + 1) :
        \A j \in 1..Len(mime) : Lower(<<content_type[i + j - 1]>>) = <<mime[j]>>

\* C17: the extension returned for a content-type header is .jpg when the
\* header mentions image/jpeg in any case; otherwise .png for image/png;
\* otherwise .gif for image/gif; otherwise .bmp for image/bmp; and .jpg when the
\* header is missing, empty or mentions none of the four.
C17_ExtensionFromContentType ==
  extension # "none" =>
     /\ Mentions(ImageJpeg) => extension = ".jpg"
     /\ (~Mentions(ImageJpeg) /\ Mentions(ImagePng)) => extension = ".png"
     /\ (~Mentions(ImageJpeg) /\ ~Mentions(ImagePng) /\ Mentions(ImageGif)) =>
           extension = ".gif"
     /\ (~Mentions(ImageJpeg) /\ ~Mentions(ImagePng) /\ ~Mentions(ImageGif)
            /\ Mentions(ImageBmp)) => extension = ".bmp"
     /\ (~Mentions(ImageJpeg) /\ ~Mentions(ImagePng) /\ ~Mentions(ImageGif)
            /\ ~Mentions(ImageBmp)) => extension = ".jpg"
     /\ content_type \in {NoHeader, <<>>} => extension = ".jpg"
     /\ content_type = ImagePng => extension = ".png"

\* C17 witness: a header that spells image/png in upper case, followed by a
\* parameter separator, gave .png.
C17_Witness ==
  /\ extension = ".png"
  /\ Mentions(ImagePng) /\ ~In(ImagePng, content_type)
  /\ Len(content_type) > Len(ImagePng)

\* The input sequence is empty: no folder, or no file in it with the extension.
InputEmpty ==
  \/ ~image_folder.exists
  \/ ~\E f \in image_folder.files :
         f.isfile /\ EndsWith(Lower(FileName(f)), Lower(image_ext))

\* The image file with the least number: the first in natural order.
FirstFrame ==
  CHOOSE f \in ImageFiles : \A g \in ImageFiles : f.num <= g.num

FirstUndecodable == ~InputEmpty /\ FirstFrame.read # "frame"

\* C18: when the input sequence is empty, or the first frame in natural order
\* cannot be decoded, the video writer is never opened and no frame is ever
\* written; create_timelapse returns from the listing in the first case and
\* from reading that first frame in the second, and does nothing afterwards.
C18_TimelapseFailsWithoutOutput ==
  [][/\ (InputEmpty \/ FirstUndecodable) =>
           /\ out' = "unopened"
           /\ frames' = <<>>
           /\ tl_pc'.at \notin {"open_writer", "write", "done"}
     /\ (InputEmpty /\ tl_pc.at = "start") => tl_pc'.at = "returned"
     /\ (FirstUndecodable /\ tl_pc.at = "start") =>
           /\ tl_pc'.at = "read_first"
           /\ sorted_image_files'[1] = FirstFrame
     /\ (FirstUndecodable /\ tl_pc.at = "read_first") => tl_pc'.at = "returned"
     /\ tl_pc.at = "returned" => UNCHANGED vars]_vars

\* C18 witness: the first image in natural order cannot be read while a later
\* one can, and create_timelapse has returned.
C18_Witness ==
  /\ tl_pc.at = "returned"
  /\ FirstUndecodable
  /\ \E f \in ImageFiles : f.read = "frame"

====
